---- MODULE Spec2Model ----
(***************************************************************************)
(* Model of the I18n language controller of the DidalaSoft AudioGrab site. *)
(* The repository holds three near-duplicate variants of the controller:   *)
(*   "simple"  : src/unnamed/part_000 lines 1-111                          *)
(*   "guarded" : src/unnamed/part_000 lines 113-254                        *)
(*   "rich"    : src/js/i18n.js                                            *)
(* The variable `variant` selects which of the three classes is running.   *)
(*                                                                         *)
(* JavaScript strings are sequences of atoms.  An atom is one character    *)
(* ("e", "S", "/", ".", "-") or an opaque chunk of characters that holds   *)
(* no separator and no letter the code inspects ("privacy.html", "nav").   *)
(* A JavaScript value that may be null/undefined is a record               *)
(* [some, v]: Null is null/undefined, Str(s) is the string s.              *)
(***************************************************************************)
EXTENDS Naturals, Sequences, FiniteSets, TLC

VARIABLES
    variant,        \* which of the three I18n classes the page runs
    phase,          \* "DOMContentLoaded" | "ready" | "threw"
    location,       \* window.location: [pathname, search, hash, throws, href]
    navigator,      \* [language, userLanguage, throws]
    localStorage,   \* [available, item]: the 'didalaSoft-language' slot
    hasSelector,    \* whether #language-selector exists in the page
    currentLang,    \* this.currentLang
    translations,   \* this.translations
    inflight,       \* fetches issued by loadTranslations and not yet settled
    loads,          \* number of top-level loadTranslations calls on this page
    lastRequested,  \* lang of the most recent top-level loadTranslations call
    lastSettled,    \* the two fetches that settled last, oldest first
    dom,            \* content of the elements carrying data-i18n
    selector,       \* value of #language-selector
    meta,           \* canonical / og:url / twitter:url / JSON-LD placeholders
    links,          \* href of the internal <a> elements
    alternates,     \* the <link rel="alternate" hreflang> elements of <head>
    calls,          \* number of changeLanguage calls made so far
    lastCall,       \* the latest changeLanguage call: its argument, and how
                    \* localStorage.setItem ended ("none" when not called)
    pageLoads,      \* navigations followed so far
    lookupKey,      \* the key page script last passed to t(key)
    lookupResult    \* what that call returned

vars == <<variant, phase, location, navigator, localStorage, hasSelector,
          currentLang, translations, inflight, loads,
          lastRequested, lastSettled, dom, selector, meta, links, alternates,
          calls, lastCall, pageLoads, lookupKey, lookupResult>>

(***************************************************************************)
(* Bounds of the model.                                                    *)
(***************************************************************************)
MaxCalls == 1
MaxPageLoads == 1

(***************************************************************************)
(* JavaScript values and string primitives.                                *)
(***************************************************************************)
Null == [some |-> FALSE, v |-> <<>>]
Str(s) == [some |-> TRUE, v |-> s]

\* JavaScript truthiness of a string-or-null value: null, undefined and ''
\* are falsy.
Truthy(x) == x.some /\ x.v # <<>>

\* a || b
Or(a, b) == IF Truthy(a) THEN a ELSE b

EN == <<"e", "n">>
ES == <<"e", "s">>
FR == <<"f", "r">>

LowerAtom(c) ==
    CASE c = "E" -> "e"
      [] c = "S" -> "s"
      [] c = "N" -> "n"
      [] c = "M" -> "m"
      [] c = "X" -> "x"
      [] c = "U" -> "u"
      [] OTHER -> c

\* String.prototype.toLowerCase
ToLowerCase(s) == [i \in 1..Len(s) |-> LowerAtom(s[i])]

\* String.prototype.startsWith
StartsWith(s, p) == Len(s) >= Len(p) /\ SubSeq(s, 1, Len(p)) = p

\* String.prototype.split(sep): empty pieces are kept, ''.split gives [''].
\* `piece` is the piece being read and `done` the pieces already closed.
RECURSIVE SplitFrom(_, _, _, _)
SplitFrom(s, sep, piece, done) ==
    IF s = <<>> THEN Append(done, piece)
    ELSE IF Head(s) = sep
         THEN SplitFrom(Tail(s), sep, <<>>, Append(done, piece))
         ELSE SplitFrom(Tail(s), sep, Append(piece, Head(s)), done)

Split(s, sep) == SplitFrom(s, sep, <<>>, <<>>)

\* Array.prototype.join(sep)
RECURSIVE Join(_, _)
Join(segs, sep) ==
    IF segs = <<>> THEN <<>>
    ELSE IF Len(segs) = 1 THEN Head(segs)
    ELSE Head(segs) \o <<sep>> \o Join(Tail(segs), sep)

NonEmpty(s) == Len(s) > 0

\* Array.prototype.findIndex(s => s is one of `wanted`) and indexOf, 1-based;
\* 0 when nothing matches (JS: -1).
FindIndex(segs, wanted) ==
    IF \E i \in 1..Len(segs) : segs[i] \in wanted
    THEN CHOOSE i \in 1..Len(segs) :
            segs[i] \in wanted /\ \A j \in 1..(i - 1) : segs[j] \notin wanted
    ELSE 0

\* The result of a call that may throw.
Ret(x) == [threw |-> FALSE, val |-> x]
Throw == [threw |-> TRUE, val |-> Null]

(***************************************************************************)
(* The page and the translation resources (external to the controller).    *)
(***************************************************************************)
Variants == {"simple", "guarded", "rich"}

\* 'https://didalasoft.github.io/audiograb-site' (setupHrefLang, setupDynamicMetaTags)
Origin == <<"https://didalasoft.github.io/audiograb-site">>

Key(a, b) == <<a, ".", b>>

\* The elements of the page that carry data-i18n or data-i18n-title.
PageElements ==
    [ navHome      |-> [tag |-> "A",      type |-> "",     i18n |-> Str(Key("nav", "home")),      i18nTitle |-> Null],
      navAudiograb |-> [tag |-> "A",      type |-> "",     i18n |-> Str(Key("nav", "audiograb")), i18nTitle |-> Null],
      navPrivacy   |-> [tag |-> "A",      type |-> "",     i18n |-> Str(Key("nav", "privacy")),   i18nTitle |-> Null],
      pageTitle    |-> [tag |-> "TITLE",  type |-> "",     i18n |-> Str(Key("page", "title")),    i18nTitle |-> Null],
      pageDesc     |-> [tag |-> "META",   type |-> "",     i18n |-> Str(Key("page", "desc")),     i18nTitle |-> Null],
      searchBox    |-> [tag |-> "INPUT",  type |-> "text", i18n |-> Str(Key("search", "hint")),   i18nTitle |-> Null],
      langButton   |-> [tag |-> "BUTTON", type |-> "",     i18n |-> Null,                         i18nTitle |-> Str(Key("lang", "tooltip"))] ]

Elements == DOMAIN PageElements

\* The content of the page as served, before any translation is applied.
StaticDom ==
    [e \in Elements |->
        [innerHTML |-> <<"static">>, textContent |-> <<"static">>,
         content |-> <<"static">>, placeholder |-> <<"static">>,
         title |-> <<"static">>]]

\* A translation table maps a path of property names to a leaf string; the
\* JSON object {nav: {home: "Home"}} is the table with the one path
\* <<"nav", "home">>.  A property name is itself a string.
Prop(a) == <<a>>
Entry(a, b, leaf) == << Prop(a), Prop(b) >> :> <<leaf>>

EmptyTable == [p \in {} |-> <<>>]

\* translations/en.json and translations/es.json as served.
EnJson ==
    Entry("nav", "home", "Home") @@ Entry("nav", "audiograb", "AudioGrab") @@
    Entry("nav", "privacy", "Privacy") @@ Entry("page", "title", "AudioGrab") @@
    Entry("page", "desc", "Record audio") @@ Entry("search", "hint", "Search") @@
    Entry("lang", "tooltip", "Language")

EsJson ==
    Entry("nav", "home", "Inicio") @@ Entry("nav", "audiograb", "AudioGrab") @@
    Entry("nav", "privacy", "Privacidad") @@ Entry("page", "title", "AudioGrab ES") @@
    Entry("page", "desc", "Grabar audio") @@ Entry("search", "hint", "Buscar") @@
    Entry("lang", "tooltip", "Idioma")

\* A JSON body sent with a non-OK status, e.g. {"error": "Not Found"}.
ErrorJson == << Prop("error") >> :> <<"Not Found">>

\* How a fetch can settle:
\*   ok            OK status, body parses to the language's table
\*   network_error fetch() rejects
\*   not_ok        non-OK status, body is not JSON
\*   not_ok_json   non-OK status, body is JSON
\*   bad_json      OK status, body is not JSON
Failures == {"network_error", "not_ok", "not_ok_json", "bad_json"}

\* Only translations/en.json and translations/es.json exist on the server.
Outcomes(lang) == IF lang \in {EN, ES} THEN {"ok"} \cup Failures ELSE Failures

ResponseOk(outcome) == outcome \in {"ok", "bad_json"}
BodyParses(outcome) == outcome \in {"ok", "not_ok_json"}
Body(lang, outcome) ==
    IF outcome = "ok" THEN (IF lang = EN THEN EnJson ELSE EsJson) ELSE ErrorJson

\* The internal anchors of the page, by their href attribute as served.
StaticLinks ==
    [ aIndex     |-> <<"index.html">>,
      aAudiograb |-> <<"audiograb.html">>,
      aPrivacy   |-> <<"privacy.html">>,
      aTop       |-> <<"#", "top">>,
      aExternal  |-> <<"http", "://example.org">> ]

Placeholder == <<"DYNAMIC_URL">>

StaticMeta ==
    [canonical |-> Placeholder, ogUrl |-> Placeholder,
     twitterUrl |-> Placeholder,
     jsonLd |-> <<"{\"url\":\"">> \o Placeholder \o <<"\"}">>]

\* The options of #language-selector.
SelectorOptions == {EN, ES}

(***************************************************************************)
(* Language resolution: the signal readers and the constructor's           *)
(* precedence.                                                             *)
(***************************************************************************)
\* s === 'en' || s === 'es'
LangSegments == {EN, ES}

\* The segments, each lower-cased: findIndex(s => s.toLowerCase() === ...)
\* looks for the first whose lower-cased form is a language code.
LowerAll(segs) == [i \in 1..Len(segs) |-> ToLowerCase(segs[i])]

\* path.split('/').filter(segment => segment.length > 0)
PathSegments(path) == SelectSeq(Split(path, "/"), NonEmpty)

\* getLanguageFromUrl(): only the rich variant has it.
getLanguageFromUrl ==
    IF location.throws THEN Null
    ELSE LET pathSegments == PathSegments(location.pathname)
             langIdx == FindIndex(LowerAll(pathSegments), LangSegments)
         IN  IF langIdx # 0 THEN Str(ToLowerCase(pathSegments[langIdx]))
             ELSE Null

\* const urlLang = this.getLanguageFromUrl(): absent from the simple and the
\* guarded constructor.
UrlSignal == IF variant = "rich" THEN getLanguageFromUrl ELSE Null

\* getSavedLanguage(): the simple variant has no try/catch.
getSavedLanguage ==
    IF localStorage.available THEN Ret(localStorage.item)
    ELSE IF variant = "simple" THEN Throw ELSE Ret(Null)

\* const rawBrowserLang = navigator.language || navigator.userLanguage;
\* in the constructor, outside any try/catch in all three variants.
rawBrowserLang ==
    IF navigator.throws THEN Throw
    ELSE Ret(Or(navigator.language, navigator.userLanguage))

\* lang.startsWith('es') ? 'es' : 'en'
NormalizeBrowser(lang) == IF StartsWith(lang, ES) THEN ES ELSE EN

\* getBrowserLanguage(): the simple variant neither lower-cases nor guards,
\* and calls startsWith on undefined when the browser reports nothing.
getBrowserLanguage ==
    IF variant = "simple"
    THEN IF navigator.throws THEN Throw
         ELSE LET lang == Or(navigator.language, navigator.userLanguage)
              IN  IF ~lang.some THEN Throw
                  ELSE Ret(Str(NormalizeBrowser(lang.v)))
    ELSE IF navigator.throws THEN Ret(Str(EN))
         ELSE LET lang == Or(Or(navigator.language, navigator.userLanguage),
                             Str(<<>>))
              IN  Ret(Str(NormalizeBrowser(ToLowerCase(lang.v))))

\* Alternative behaviour: the browser's language consulted before the stored preference.
ResolveLangBrowserFirst(urlLang, savedLang, browserLang) ==
    Or(Or(Or(urlLang, browserLang), savedLang), Str(EN))

\* urlLang || savedLang || browserLang || 'en'
ResolveLang(urlLang, savedLang, browserLang) ==
    Or(Or(Or(urlLang, savedLang), browserLang), Str(EN))

\* Whether the constructor runs to its end, and the language it resolves.
ConstructorThrows ==
    getSavedLanguage.threw \/ rawBrowserLang.threw \/ getBrowserLanguage.threw

ConstructedLang ==
    ResolveLang(UrlSignal, getSavedLanguage.val, getBrowserLanguage.val)

(***************************************************************************)
(* Translation lookup and application.                                     *)
(***************************************************************************)
Undefined == [kind |-> "undefined", path |-> <<>>, s |-> <<>>]
ObjectAt(p) == [kind |-> "object", path |-> p, s |-> <<>>]
Leaf(s) == [kind |-> "string", path |-> <<>>, s |-> s]

IsProperPrefix(p, q) == Len(p) < Len(q) /\ SubSeq(q, 1, Len(p)) = p

\* Property access also finds what a value inherits.  Of the inherited
\* properties the model keeps two: 'constructor' of an object (a function)
\* and 'length' of a string (a number, 0 for '').
ObjectFunction ==
    [kind |-> "function", path |-> <<>>,
     s |-> <<"function Object() { [native code] }">>]
LengthOf(s) ==
    [kind |-> "number", path |-> <<>>,
     s |-> IF s = <<>> THEN <<"0">> ELSE <<"length of ">> \o s]

\* obj[k] of a table node.
Member(table, obj, k) ==
    IF obj.kind = "object"
    THEN LET p == Append(obj.path, k)
         IN  IF p \in DOMAIN table THEN Leaf(table[p])
             ELSE IF \E q \in DOMAIN table : IsProperPrefix(p, q)
                  THEN ObjectAt(p)
                  ELSE IF k = <<"constructor">> THEN ObjectFunction
                  ELSE Undefined
    ELSE IF obj.kind = "string" /\ k = <<"length">> THEN LengthOf(obj.s)
    ELSE Undefined

\* JavaScript truthiness of a table node.
NodeTruthy(obj) ==
    \/ obj.kind \in {"object", "function"}
    \/ obj.kind = "string" /\ obj.s # <<>>
    \/ obj.kind = "number" /\ obj.s # <<"0">>

\* keys.reduce((obj, k) => obj && obj[k], start)
RECURSIVE Reduce(_, _, _)
Reduce(table, obj, keys) ==
    IF keys = <<>> THEN obj
    ELSE Reduce(table,
                IF NodeTruthy(obj) THEN Member(table, obj, Head(keys)) ELSE obj,
                Tail(keys))

\* getTranslation(key)
getTranslation(table, key) == Reduce(table, ObjectAt(<<>>), Split(key, "."))

\* The string an element shows when a node is assigned to it.
Rendered(obj) ==
    IF obj.kind = "object" THEN <<"[object Object]">> ELSE obj.s

\* The property of an element that applyTranslations writes for data-i18n.
TargetSlot(el) ==
    IF el.tag = "INPUT" /\ el.type = "placeholder" THEN "placeholder"
    ELSE IF el.tag = "TITLE" THEN "textContent"
    ELSE IF el.tag = "META" THEN "content"
    ELSE "innerHTML"

\* The simple variant has no TITLE and no META branch.
TargetSlotSimple(el) ==
    IF el.tag = "INPUT" /\ el.type = "placeholder" THEN "placeholder"
    ELSE "innerHTML"

\* applyTranslations(): the data-i18n pass, then the data-i18n-title pass.
applyTranslations(table, d) ==
    [e \in Elements |->
        LET el == PageElements[e]
            slot == IF variant = "simple" THEN TargetSlotSimple(el)
                    ELSE TargetSlot(el)
            t1 == IF el.i18n.some THEN getTranslation(table, el.i18n.v)
                  ELSE Undefined
            d1 == IF el.i18n.some /\ NodeTruthy(t1)
                  THEN [d[e] EXCEPT ![slot] = Rendered(t1)]
                  ELSE d[e]
            t2 == IF el.i18nTitle.some
                  THEN getTranslation(table, el.i18nTitle.v)
                  ELSE Undefined
        IN  IF el.i18nTitle.some /\ NodeTruthy(t2)
            THEN [d1 EXCEPT !.title = Rendered(t2)]
            ELSE d1]

\* The built-in table of the catch branch: three properties whose NAMES hold
\* a dot, at the top level of the object.
FallbackTable ==
    (<< Key("nav", "home") >> :> <<"Home">>) @@
    (<< Key("nav", "audiograb") >> :> <<"AudioGrab">>) @@
    (<< Key("nav", "privacy") >> :> <<"Privacy">>)

(***************************************************************************)
(* Link, alternate and metadata synchronisation (rich variant).            *)
(***************************************************************************)
\* s.replace(/^\/+/, '')
RECURSIVE StripLeadingSlashes(_)
StripLeadingSlashes(s) ==
    IF s # <<>> /\ Head(s) = "/" THEN StripLeadingSlashes(Tail(s)) ELSE s

\* The sequence without its i-th element (splice(i, 1)).
RemoveAt(segs, i) == SubSeq(segs, 1, i - 1) \o SubSeq(segs, i + 1, Len(segs))

\* The sequence with x inserted before position i (splice(i - 1, 0, x)).
InsertAt(segs, i, x) == SubSeq(segs, 1, i - 1) \o <<x>> \o SubSeq(segs, i, Len(segs))

\* The page path left of the segments once the first language segment is
\* spliced out; 'index.html' when nothing is left.
PagePath(segs) ==
    LET langIdx == FindIndex(segs, LangSegments)
        pageSegs == IF langIdx # 0 THEN RemoveAt(segs, langIdx) ELSE segs
        joined == Join(pageSegs, "/")
    IN  IF joined # <<>> THEN joined ELSE <<"index.html">>

\* The page path setupHrefLang builds its three URLs from.  The segments are
\* bound through a singleton so that they are computed once, as the code's
\* const does.
HrefLangPagePath ==
    LET path == StripLeadingSlashes(location.pathname)
    IN  CHOOSE pagePath \in { PagePath(segs) : segs \in {PathSegments(path)} } : TRUE

AlternateLink(hreflang, lang, pagePath) ==
    [hreflang |-> hreflang,
     href |-> Origin \o <<"/">> \o lang \o <<"/">> \o pagePath]

\* An element that link[rel="alternate"][hreflang] selects; every element of
\* `alternates` is one.
IsAlternate(link) == "hreflang" \in DOMAIN link
NotAlternate(link) == ~IsAlternate(link)

\* Alternative behaviour: the alternates already in the document are kept.
KeepAlternates(alts) == alts

\* querySelectorAll('link[rel="alternate"][hreflang]').forEach(removeChild)
RemoveAlternates(alts) == SelectSeq(alts, NotAlternate)

\* setupHrefLang(): drop every alternate, append the three new ones.
setupHrefLang(alts) ==
    IF location.throws THEN alts
    ELSE RemoveAlternates(alts) \o
         << AlternateLink(EN, EN, HrefLangPagePath),
            AlternateLink(ES, ES, HrefLangPagePath),
            AlternateLink(<<"x-default">>, EN, HrefLangPagePath) >>

InternalFiles == { <<"index.html">>, <<"audiograb.html">>, <<"privacy.html">> }

\* segments.includes('en') || segments.includes('es')
HasLang ==
    LET segments == PathSegments(location.pathname)
    IN  \E i \in 1..Len(segments) : segments[i] \in LangSegments

\* Alternative behaviour: the anchors chosen by the file they lead to, whatever
\* folder their href names.
SelectedByFile(href) ==
    LET pieces == Split(href, "/")
    IN  pieces[Len(pieces)] \in InternalFiles

\* document.querySelectorAll('a[href="index.html"], ...'): the anchors whose
\* href attribute is, as it stands now, exactly one of the three file names.
Selected(href) == href \in InternalFiles

\* updateInternalLinks(), cur being this.currentLang.
updateInternalLinks(cur, lks) ==
    IF location.throws THEN lks
    ELSE LET lang == Or(Or(cur, getLanguageFromUrl), Str(EN)).v
         IN  [a \in DOMAIN lks |->
                LET href == lks[a]
                IN  IF ~Selected(href) THEN href
                    ELSE IF href = <<>> \/ StartsWith(href, <<"http">>)
                            \/ StartsWith(href, <<"#">>) \/ StartsWith(href, <<"/">>)
                         THEN href
                    ELSE IF HasLang THEN href
                    ELSE lang \o <<"/">> \o StripLeadingSlashes(href)]

\* s.includes('DYNAMIC_URL')
HasPlaceholder(s) == \E i \in 1..Len(s) : s[i] = "DYNAMIC_URL"

\* s.replace(/DYNAMIC_URL/g, by)
RECURSIVE ReplacePlaceholder(_, _)
ReplacePlaceholder(s, by) ==
    IF s = <<>> THEN <<>>
    ELSE (IF Head(s) = "DYNAMIC_URL" THEN by ELSE <<Head(s)>>)
         \o ReplacePlaceholder(Tail(s), by)

\* setupDynamicMetaTags()
setupDynamicMetaTags(m) ==
    IF location.throws THEN m
    ELSE LET currentPath == location.pathname
             fullUrl == Origin \o currentPath \o location.search
             sub(x) == IF HasPlaceholder(x) THEN fullUrl ELSE x
         IN  [canonical |-> sub(m.canonical),
              ogUrl |-> sub(m.ogUrl),
              twitterUrl |-> sub(m.twitterUrl),
              jsonLd |-> ReplacePlaceholder(m.jsonLd, currentPath \o location.search)]

\* The repository folder under which GitHub Pages serves the site.
RepoSegment == <<"audiograb-site">>

\* navigateToLanguage(lang): the value assigned to window.location.href.
NewPath(lang) ==
    LET segments == PathSegments(location.pathname)
        langIdx == FindIndex(segments, LangSegments)
        repoIdx == FindIndex(segments, {RepoSegment})
        moved == IF langIdx # 0 THEN [segments EXCEPT ![langIdx] = lang]
                 ELSE InsertAt(segments, repoIdx + 1, lang)
    IN  <<"/">> \o Join(moved, "/") \o location.search \o location.hash

navigateToLanguage(lang) ==
    IF location.throws THEN location.href ELSE Str(NewPath(lang))

\* The browser's parse of an assigned URL into pathname, search and hash.
RECURSIVE TakeUntil(_, _)
TakeUntil(s, stops) ==
    IF s = <<>> \/ Head(s) \in stops THEN <<>>
    ELSE <<Head(s)>> \o TakeUntil(Tail(s), stops)

RECURSIVE DropUntil(_, _)
DropUntil(s, stops) ==
    IF s = <<>> \/ Head(s) \in stops THEN s ELSE DropUntil(Tail(s), stops)

UrlPathname(url) == TakeUntil(url, {"?", "#"})

UrlSearch(url) ==
    LET q == DropUntil(url, {"?", "#"})
    IN  IF q # <<>> /\ Head(q) = "?" THEN <<"?">> \o TakeUntil(Tail(q), {"#"})
        ELSE <<>>

UrlHash(url) == DropUntil(url, {"#"})

(***************************************************************************)
(* The controller's operations.                                            *)
(***************************************************************************)
NoCall == [lang |-> <<>>, setItem |-> "none"]

\* A fetch in flight: the language asked for, the top-level loadTranslations
\* call it belongs to (1 is init's), and its place in that call's chain.
Fetch(lang, chain, hop) == [lang |-> lang, chain |-> chain, hop |-> hop]

\* The history variable lastSettled keeps the two most recent settlements,
\* and how the fetch ended for the latest only.
Recent(log, r, outcome, success) ==
    LET latest == [lang |-> r.lang, chain |-> r.chain, hop |-> r.hop,
                   outcome |-> outcome, success |-> success]
    IN  IF log = << >> THEN <<latest>>
        ELSE << [log[Len(log)] EXCEPT !.outcome = "settled"], latest >>

\* The try block of loadTranslations reaches its end: the simple variant has
\* no response.ok check, so any body that parses is installed.
LoadSucceeds(outcome) ==
    IF variant = "simple" THEN BodyParses(outcome)
    ELSE ResponseOk(outcome) /\ BodyParses(outcome)

\* Alternative behaviour: the catch branch retries whatever the language was.
RetriesAlways(lang) == TRUE

\* if (lang !== 'en') in the catch branch
RetriesEnglish(lang) == lang # EN

\* Alternative behaviour: a response is dropped when a later loadTranslations call exists.
InstalledUnlessSuperseded(r, outcome) ==
    IF r.chain = loads THEN Body(r.lang, outcome) ELSE translations

\* Alternative behaviour: the parsed body is merged into the table that is there.
InstalledMerged(r, outcome) == Body(r.lang, outcome) @@ translations

\* The table a completed load installs: this.translations = await response.json()
Installed(r, outcome) == Body(r.lang, outcome)

\* Alternative behaviour: changeLanguage without its guard.
ChangesAlways(lang) == TRUE

\* if (lang !== this.currentLang) in changeLanguage
Changes(lang) == Str(lang) # currentLang

\* Alternative behaviour: this.currentLang is assigned before setItem is tried.
SavedCurrentLangFirst(lang, stored) == Str(lang)

\* What saveLanguage leaves in this.currentLang: the assignment follows
\* setItem inside the try block.
SavedCurrentLang(lang, stored) == IF stored THEN Str(lang) ELSE currentLang

\* if (selector) { selector.value = this.currentLang }
SelectorShows(cur) == IF hasSelector THEN cur ELSE selector

\* The synchronisation calls that follow applyTranslations in the rich
\* variant: setupDynamicMetaTags, updateInternalLinks, setupHrefLang.
Synchronise(cur) ==
    IF variant = "rich"
    THEN /\ meta' = setupDynamicMetaTags(meta)
         /\ links' = updateInternalLinks(cur, links)
         /\ alternates' = setupHrefLang(alternates)
    ELSE UNCHANGED <<meta, links, alternates>>

\* new I18n() on DOMContentLoaded: the constructor and init().
Constructor ==
    /\ phase = "DOMContentLoaded"
    /\ IF ConstructorThrows
       THEN /\ phase' = "threw"
            /\ UNCHANGED <<currentLang, translations, inflight, loads,
                           lastRequested, selector, meta, links, alternates>>
       ELSE /\ phase' = "ready"
            /\ currentLang' = ConstructedLang
            /\ translations' = EmptyTable
            /\ inflight' = inflight \cup {Fetch(ConstructedLang.v, loads + 1, 1)}
            /\ loads' = loads + 1
            /\ lastRequested' = ConstructedLang
            /\ selector' = SelectorShows(ConstructedLang)
            /\ Synchronise(ConstructedLang)
    /\ UNCHANGED <<variant, location, navigator, localStorage, hasSelector,
                   lastSettled, dom, calls, lastCall, pageLoads,
                   lookupKey, lookupResult>>

\* The continuation of loadTranslations(r.lang) once its fetch has settled.
Settle(r, outcome) ==
    /\ phase = "ready"
    /\ r \in inflight
    /\ outcome \in Outcomes(r.lang)
    /\ lastSettled' = Recent(lastSettled, r, outcome, LoadSucceeds(outcome))
    /\ IF LoadSucceeds(outcome)
       THEN /\ translations' = Installed(r, outcome)
            /\ dom' = applyTranslations(translations', dom)
            /\ selector' = SelectorShows(currentLang)
            /\ Synchronise(currentLang)
            /\ inflight' = inflight \ {r}
       ELSE IF RetriesEnglish(r.lang)
       THEN /\ inflight' = (inflight \ {r}) \cup {Fetch(EN, r.chain, r.hop + 1)}
            /\ UNCHANGED <<translations, dom, selector, meta, links, alternates>>
       ELSE IF variant = "simple"
       THEN /\ inflight' = inflight \ {r}
            /\ UNCHANGED <<translations, dom, selector, meta, links, alternates>>
       ELSE /\ translations' = FallbackTable
            /\ dom' = applyTranslations(translations', dom)
            /\ Synchronise(currentLang)
            /\ inflight' = inflight \ {r}
            /\ UNCHANGED selector
    /\ UNCHANGED <<variant, phase, location, navigator, localStorage,
                   hasSelector, currentLang, loads, lastRequested, calls,
                   lastCall, pageLoads, lookupKey, lookupResult>>

\* changeLanguage(lang); stored tells whether localStorage.setItem returns
\* (TRUE) or throws (FALSE).
changeLanguage(lang, stored) ==
    /\ phase = "ready"
    /\ calls < MaxCalls
    /\ calls' = calls + 1
    /\ IF ~Changes(lang)
       THEN /\ lastCall' = [lang |-> lang, setItem |-> "none"]
            /\ UNCHANGED <<location, localStorage, currentLang, inflight,
                           loads, lastRequested>>
       ELSE /\ stored => localStorage.available
            /\ localStorage' = IF stored
                               THEN [localStorage EXCEPT !.item = Str(lang)]
                               ELSE localStorage
            /\ currentLang' = SavedCurrentLang(lang, stored)
            /\ IF ~stored /\ variant = "simple"
               THEN \* setItem's exception leaves saveLanguage and changeLanguage
                    /\ lastCall' = [lang |-> lang, setItem |-> "threw"]
                    /\ UNCHANGED <<location, inflight, loads, lastRequested>>
               ELSE /\ lastCall' = [lang |-> lang,
                                    setItem |-> IF stored THEN "ok" ELSE "threw"]
                    /\ inflight' = inflight \cup {Fetch(lang, loads + 1, 1)}
                    /\ loads' = loads + 1
                    /\ lastRequested' = Str(lang)
                    /\ location' = IF variant = "rich"
                                   THEN [location EXCEPT !.href = navigateToLanguage(lang)]
                                   ELSE location
    /\ UNCHANGED <<variant, phase, navigator, hasSelector, translations,
                   lastSettled, dom, meta, links, alternates, pageLoads,
                   lookupKey, lookupResult>>

\* window.i18n.changeLanguage(lang) called by page script.
ChangeLanguageCall(lang, stored) ==
    /\ changeLanguage(lang, stored)
    /\ UNCHANGED selector

\* The user picks an option of #language-selector: its change listener runs
\* changeLanguage(e.target.value).
SelectorChange(lang, stored) ==
    /\ hasSelector
    /\ lang \in SelectorOptions
    /\ selector' = Str(lang)
    /\ changeLanguage(lang, stored)

\* The navigation started by window.location.href = newPath completes: the
\* document is replaced and its script starts afresh.
PageLoad ==
    /\ phase = "ready"
    /\ location.href.some
    /\ pageLoads < MaxPageLoads
    /\ pageLoads' = pageLoads + 1
    /\ location' = [pathname |-> UrlPathname(location.href.v),
                    search |-> UrlSearch(location.href.v),
                    hash |-> UrlHash(location.href.v),
                    throws |-> FALSE, href |-> Null]
    /\ phase' = "DOMContentLoaded"
    /\ currentLang' = Null
    /\ translations' = EmptyTable
    /\ inflight' = {}
    /\ loads' = 0
    /\ lastRequested' = Null
    /\ lastSettled' = << >>
    /\ dom' = StaticDom
    /\ selector' = Str(EN)
    /\ meta' = StaticMeta
    /\ links' = StaticLinks
    /\ alternates' = << >>
    /\ lastCall' = NoCall
    /\ UNCHANGED <<variant, navigator, localStorage, hasSelector, calls,
                   lookupKey, lookupResult>>

(***************************************************************************)
(* Initial states: the page as served, before DOMContentLoaded.            *)
(***************************************************************************)
Loc(pathname, search, hash, throws) ==
    [pathname |-> pathname, search |-> search, hash |-> hash,
     throws |-> throws, href |-> Null]

Nav(language, userLanguage, throws) ==
    [language |-> language, userLanguage |-> userLanguage, throws |-> throws]

Store(available, item) == [available |-> available, item |-> item]

Page(v, loc, nav, store, sel) ==
    [variant |-> v, location |-> loc, navigator |-> nav,
     localStorage |-> store, hasSelector |-> sel]

\* The controller is about to be constructed on one of `pages`.
InitWith(pages) ==
    /\ \E pg \in pages :
          /\ variant = pg.variant
          /\ location = pg.location
          /\ navigator = pg.navigator
          /\ localStorage = pg.localStorage
          /\ hasSelector = pg.hasSelector
    /\ phase = "DOMContentLoaded"
    /\ currentLang = Null
    /\ translations = EmptyTable
    /\ inflight = {}
    /\ loads = 0
    /\ lastRequested = Null
    /\ lastSettled = << >>
    /\ dom = StaticDom
    /\ selector = Str(EN)
    /\ meta = StaticMeta
    /\ links = StaticLinks
    /\ alternates = << >>
    /\ calls = 0
    /\ lastCall = NoCall
    /\ pageLoads = 0
    /\ lookupKey = Null
    /\ lookupResult = Undefined

\* Page paths.
PathRepoPage == <<"/", "audiograb-site", "/", "privacy.html">>
PathRepoEs == <<"/", "audiograb-site", "/", "e", "s", "/", "privacy.html">>
PathRepoUpper == <<"/", "audiograb-site", "/", "E", "S", "/", "index.html">>
PathRoot == <<"/">>
PathPage == <<"/", "privacy.html">>
PathEn == <<"/", "e", "n", "/">>

\* Browser language tags.
TagEsMx == <<"e", "s", "-", "M", "X">>
TagEsUpper == <<"E", "S">>
TagEsMixed == <<"E", "s", "-", "a", "r">>
TagEnUs == <<"e", "n", "-", "U", "S">>
TagE == <<"e">>

LangArgs == {EN, ES, FR}

\* The pages the behaviours start from: each variant with and without a
\* stored preference and with the store unavailable; the rich variant also on
\* a page inside a language folder, and without a language selector.
Pages ==
    { Page(v, Loc(PathRepoPage, <<>>, <<>>, FALSE), Nav(Str(TagEsMx), Null, FALSE), st, TRUE) :
        v \in Variants, st \in {Store(TRUE, Null), Store(TRUE, Str(FR)), Store(FALSE, Null)} }
    \cup
    { Page("rich", Loc(PathRepoEs, <<"?", "q=1">>, <<"#", "top">>, FALSE),
           Nav(Str(TagEnUs), Null, FALSE), Store(TRUE, Null), TRUE),
      Page("rich", Loc(PathRepoPage, <<>>, <<>>, FALSE),
           Nav(Str(TagEnUs), Null, FALSE), Store(TRUE, Str(ES)), FALSE) }

Init == InitWith(Pages)

\* Some fetch in flight settles, in one of the ways open to it.
FetchSettles ==
    \E r \in inflight : \E outcome \in {"ok"} \cup Failures : Settle(r, outcome)

\* Page script calls changeLanguage with some argument.
ScriptCalls ==
    \E lang \in LangArgs : \E stored \in BOOLEAN : ChangeLanguageCall(lang, stored)

\* The user changes the selector.
UserSelects ==
    \E lang \in SelectorOptions : \E stored \in BOOLEAN : SelectorChange(lang, stored)

Next ==
    \/ Constructor
    \/ FetchSettles
    \/ ScriptCalls
    \/ UserSelects
    \/ PageLoad

Spec == Init /\ [][Next]_vars

\* Every fetch in flight eventually settles, whichever call issued it.
SettleOf(chain) ==
    \E r \in inflight : \E outcome \in {"ok"} \cup Failures :
        r.chain = chain /\ Settle(r, outcome)

Chains == 1..(MaxCalls + 1)

FairSpec == Spec /\ \A chain \in Chains : WF_vars(SettleOf(chain))

(***************************************************************************)
(* Resolution alone: the constructor run on every combination of signals.  *)
(***************************************************************************)
ResolveLocations ==
    { Loc(path, <<>>, <<>>, FALSE) :
        path \in {PathRepoPage, PathRepoEs, PathRepoUpper, PathRoot, PathPage, PathEn} }
    \cup { Loc(PathRepoEs, <<>>, <<>>, TRUE) }

ResolveTags ==
    { Null, Str(<<>>), Str(ES), Str(TagEsUpper), Str(TagEsMx), Str(TagEsMixed),
      Str(TagEnUs), Str(TagE), Str(FR) }

ResolveNavigators ==
    { Nav(tag, user, FALSE) : tag \in ResolveTags, user \in {Null, Str(TagEsMx)} }
    \cup { Nav(Str(TagEsMx), Null, TRUE) }

ResolveStores ==
    { Store(TRUE, item) : item \in {Null, Str(<<>>), Str(EN), Str(ES), Str(FR)} }
    \cup { Store(FALSE, Null) }

ResolvePages ==
    { Page(v, loc, nav, st, sel) :
        v \in Variants, loc \in ResolveLocations, nav \in ResolveNavigators,
        st \in ResolveStores, sel \in BOOLEAN }

InitResolve == InitWith(ResolvePages)

NextResolve == Constructor

SpecResolve == InitResolve /\ [][NextResolve]_vars

(***************************************************************************)
(* Lookup alone: a load completes with one of several tables and page      *)
(* script looks keys up through t(key).                                    *)
(***************************************************************************)
\* {nav: "Navigation"}, {nav: {home: ""}} and {a: {b: {c: "deep"}}}
TableLeafAtTop == << Prop("nav") >> :> <<"Navigation">>
TableEmptyLeaf == << Prop("nav"), Prop("home") >> :> << >>
TableDeep == << Prop("a"), Prop("b"), Prop("c") >> :> <<"deep">>

LookupTables ==
    {EmptyTable, EnJson, FallbackTable, TableLeafAtTop, TableEmptyLeaf, TableDeep}

LookupKeys ==
    { Key("nav", "home"), <<"nav">>, Key("nav", "missing"), Key("missing", "home"),
      <<"nav", ".", "home", ".", "extra">>, << >>, <<"nav", ".">>,
      <<"a", ".", "b", ".", "c">>, Key("a", "b"),
      <<"nav", ".", "home", ".", "length">>, <<"constructor">> }

\* The try block of loadTranslations runs to its end with `table` as the
\* parsed body of an OK response.
LoadCompletes(r, table) ==
    /\ phase = "ready"
    /\ r \in inflight
    /\ lastSettled' = Recent(lastSettled, r, "ok", TRUE)
    /\ translations' = table
    /\ dom' = applyTranslations(translations', dom)
    /\ selector' = SelectorShows(currentLang)
    /\ Synchronise(currentLang)
    /\ inflight' = inflight \ {r}
    /\ UNCHANGED <<variant, phase, location, navigator, localStorage,
                   hasSelector, currentLang, loads, lastRequested, calls,
                   lastCall, pageLoads, lookupKey, lookupResult>>

\* function t(key): window.i18n ? window.i18n.getTranslation(key) : key
Lookup(key) ==
    /\ lookupKey' = Str(key)
    /\ lookupResult' = IF phase = "ready" THEN getTranslation(translations, key)
                       ELSE Leaf(key)
    /\ UNCHANGED <<variant, phase, location, navigator, localStorage,
                   hasSelector, currentLang, translations, inflight, loads,
                   lastRequested, lastSettled, dom, selector, meta, links,
                   alternates, calls, lastCall, pageLoads>>

LookupPages ==
    { Page(v, Loc(PathRepoPage, <<>>, <<>>, FALSE), Nav(Str(TagEsMx), Null, FALSE),
           Store(TRUE, Null), TRUE) : v \in {"simple", "rich"} }

InitLookup == InitWith(LookupPages)

SomeLoadCompletes ==
    \E r \in inflight : \E table \in LookupTables : LoadCompletes(r, table)

SomeLookup == \E key \in LookupKeys : Lookup(key)

NextLookup ==
    \/ Constructor
    \/ SomeLoadCompletes
    \/ SomeLookup

SpecLookup == InitLookup /\ [][NextLookup]_vars

(***************************************************************************)
(* Navigation: the rich controller on every kind of page path, with the    *)
(* language switch and the page load that follows it.                      *)
(***************************************************************************)
NavigatePages ==
    { Page("rich", Loc(path, <<>>, <<>>, FALSE), Nav(Str(TagEnUs), Null, FALSE),
           Store(TRUE, Null), TRUE) :
        path \in {PathRepoPage, PathRepoEs, PathRepoUpper, PathRoot, PathPage, PathEn} }

InitNavigate == InitWith(NavigatePages)

SpecNavigate == InitNavigate /\ [][Next]_vars

(***************************************************************************)
(* Properties.                                                             *)
(***************************************************************************)
Supported == {Str(EN), Str(ES)}

\* The language segment each start path of SpecResolve carries, written out
\* by hand: "/audiograb-site/es/privacy.html" and "/audiograb-site/ES/index.html"
\* carry es, "/en/" carries en, the others none.
ExpectedPathLang(path) ==
    CASE path = PathRepoEs -> Str(ES)
      [] path = PathRepoUpper -> Str(ES)
      [] path = PathEn -> Str(EN)
      [] OTHER -> Null

\* The signals as the constructor is meant to see them; the page path is a
\* signal of the rich variant only.
PathSignal ==
    IF variant = "rich" /\ ~location.throws
    THEN ExpectedPathLang(location.pathname) ELSE Null

StoredSignal ==
    IF localStorage.available /\ localStorage.item.some /\ localStorage.item.v # <<>>
    THEN localStorage.item ELSE Null

\* C1: once constructed, currentLang is the path's language segment if there
\* is one, otherwise the stored preference if there is one, otherwise the
\* normalized browser language, otherwise 'en'; in particular a stored en or
\* es with no path language is the current language whatever the browser says.
C1_Precedence ==
    phase = "ready" =>
        /\ currentLang =
              IF PathSignal.some THEN PathSignal
              ELSE IF StoredSignal.some THEN StoredSignal
              ELSE IF Truthy(getBrowserLanguage.val) THEN getBrowserLanguage.val
              ELSE Str(EN)
        /\ (~PathSignal.some /\ StoredSignal \in Supported) => currentLang = StoredSignal

C1_Witness ==
    /\ phase = "ready"
    /\ variant = "rich"
    /\ location.pathname = PathRepoPage
    /\ localStorage = Store(TRUE, Str(ES))
    /\ navigator.language = Str(TagEnUs)
    /\ currentLang = Str(ES)

\* Reading one of the three signals fails.
SignalReadFails ==
    location.throws \/ ~localStorage.available \/ navigator.throws

\* C10: when reading the path, the store or the browser language fails, the
\* constructor of src/js/i18n.js still completes and leaves a current language.
C10_SignalFailuresTolerated ==
    (phase # "DOMContentLoaded" /\ variant = "rich" /\ SignalReadFails) =>
        (phase = "ready" /\ currentLang.some)

\* The settlement that happened last.
HasSettled == lastSettled # << >>
Latest == lastSettled[Len(lastSettled)]

\* This step is the continuation of a loadTranslations call whose fetch settled.
SettledNow == lastSettled' # lastSettled /\ lastSettled' # << >>

\* This step is a changeLanguage call.
CalledNow == calls' = calls + 1

\* C2: in src/js/i18n.js the current language is always en or es, and so is
\* every value the controller stores; an unsupported stored value or
\* changeLanguage argument is never made current.
C2_OnlySupportedLanguages ==
    variant = "rich" =>
        /\ phase = "ready" => currentLang \in Supported
        /\ lastCall.setItem = "ok" => Str(lastCall.lang) \in Supported

\* C3: a load of a language other than en whose fetch fails by a network
\* error, a non-OK status or an unparseable body starts exactly one load of
\* en; when that en fetch succeeds the table is the fetched en table and the
\* page shows it.
C3_FailedLoadFallsBackToEnglish ==
    [][ /\ (SettledNow /\ Latest'.lang # EN /\ Latest'.outcome \in Failures) =>
              /\ Fetch(EN, Latest'.chain, Latest'.hop + 1) \notin inflight
              /\ inflight' \ inflight = {Fetch(EN, Latest'.chain, Latest'.hop + 1)}
        /\ (SettledNow /\ Latest'.hop = 2 /\ Latest'.outcome = "ok") =>
              /\ translations' = EnJson
              /\ dom'.navHome.innerHTML = <<"Home">>
              /\ dom'.navPrivacy.innerHTML = <<"Privacy">> ]_vars

\* The three labels of the built-in table, by element.
BuiltInLabels ==
    [navHome |-> <<"Home">>, navAudiograb |-> <<"AudioGrab">>,
     navPrivacy |-> <<"Privacy">>]

\* C4: after the load of en has failed, looking up nav.home, nav.audiograb
\* and nav.privacy in the controller's table yields the built-in labels, and
\* the elements marked with those keys show them.
C4_BuiltInTableServesNavLabels ==
    (variant = "rich" /\ phase = "ready" /\ HasSettled /\ Latest.lang = EN
        /\ ~Latest.success) =>
        \A e \in DOMAIN BuiltInLabels :
            /\ getTranslation(translations, PageElements[e].i18n.v)
                  = Leaf(BuiltInLabels[e])
            /\ dom[e].innerHTML = BuiltInLabels[e]

\* The language a table belongs to.
TableLang(table) ==
    IF table = EnJson \/ table = FallbackTable THEN Str(EN)
    ELSE IF table = EsJson THEN Str(ES)
    ELSE Null

\* C5: in src/js/i18n.js a current language of en or es is the language of a
\* load in flight, or, when none is in flight, of the table that is loaded;
\* so it is en once the fallback to en is under way.
C5_CurrentLangTracksTable ==
    (variant = "rich" /\ phase = "ready" /\ currentLang \in Supported) =>
        IF inflight # {} THEN \E r \in inflight : Str(r.lang) = currentLang
        ELSE TableLang(translations) = currentLang

\* C6: changeLanguage with the language that is already current writes
\* nothing to the store, starts no fetch, does not navigate, and leaves the
\* current language, the table and the page as they were.
C6_SameLanguageIsNoOp ==
    [][ (CalledNow /\ Str(lastCall'.lang) = currentLang) =>
            /\ lastCall'.setItem = "none"
            /\ UNCHANGED <<localStorage, inflight, loads, lastRequested,
                           location, currentLang, translations, dom, meta,
                           links, alternates>> ]_vars

C6_Witness ==
    /\ phase = "ready"
    /\ calls > 0
    /\ Str(lastCall.lang) = currentLang
    /\ lastCall.setItem = "none"
    /\ location.href = Null

\* C7: in src/js/i18n.js changeLanguage with another language leaves, on
\* return, that language current and a load of it in flight, whether or not
\* the store accepted the write; when it did, the stored preference is that
\* language.
C7_SwitchIsOptimistic ==
    [][ (variant = "rich" /\ CalledNow /\ Str(lastCall'.lang) # currentLang) =>
            /\ currentLang' = Str(lastCall'.lang)
            /\ Fetch(lastCall'.lang, loads + 1, 1) \in inflight'
            /\ lastCall'.setItem = "ok" => localStorage'.item = Str(lastCall'.lang) ]_vars

\* C8: loads are neither cancelled nor sequenced: the table is always the one
\* of the fetch that completed successfully last, also when a call issued
\* later completed before it.
C8_LastCompletedWins ==
    (phase = "ready" /\ HasSettled /\ Latest.success) =>
        translations = Body(Latest.lang, Latest.outcome)

\* Two loads overlapped, the one issued later completed first, both
\* succeeded, nothing is in flight, and the page shows the table of the
\* language that was not requested last.
C8_Witness ==
    /\ phase = "ready"
    /\ inflight = {}
    /\ Len(lastSettled) = 2
    /\ lastSettled[1].success /\ lastSettled[2].success
    /\ lastSettled[1].hop = 1 /\ lastSettled[2].hop = 1
    /\ lastSettled[1].chain > lastSettled[2].chain
    /\ lastRequested = Str(lastSettled[1].lang)
    /\ lastSettled[1].lang = EN /\ lastSettled[2].lang = ES
    /\ translations = EsJson

\* Some fetch of the given top-level call is in flight.
Active(chain) == \E r \in inflight : r.chain = chain

\* C9: a top-level loadTranslations call issues at most two fetches, the
\* second being for en; the continuation of an en load starts no fetch; and,
\* every fetch settling eventually, every call's chain comes to an end.
C9_ChainsAreShortAndEnd ==
    /\ [](\A r \in inflight : r.hop <= 2 /\ (r.hop = 2 => r.lang = EN))
    /\ [][ (SettledNow /\ Latest'.lang = EN) => inflight' \subseteq inflight ]_vars
    /\ \A chain \in Chains : Active(chain) ~> ~Active(chain)

\* A chain of two fetches has ended with both failed.
C9_Witness ==
    /\ phase = "ready"
    /\ inflight = {}
    /\ HasSettled
    /\ Latest.hop = 2
    /\ ~Latest.success

\* The href a known page gets under language folder lang.
Prefixed(lang, file) == lang \o <<"/">> \o file

\* C11: once src/js/i18n.js has run updateInternalLinks on a page whose path
\* it could read, the relative links to the three known pages are prefixed
\* with the current language when the path has no language segment, and are
\* as served when the path has one (in any letter case); the other links are
\* as served in both cases.
C11_InternalLinksFollowLanguage ==
    (variant = "rich" /\ phase = "ready" /\ ~location.throws) =>
        \A a \in DOMAIN StaticLinks :
            links[a] = IF StaticLinks[a] \in InternalFiles /\ ~PathSignal.some
                       THEN Prefixed(currentLang.v, StaticLinks[a])
                       ELSE StaticLinks[a]

\* The hreflang targets of the alternates.
Targets == {EN, ES, <<"x-default">>}

\* The alternates of the document that carry the given hreflang.
AlternatesFor(target) ==
    { i \in 1..Len(alternates) : alternates[i].hreflang = target }

\* C12: however often setupHrefLang has run on a page whose path it can read
\* (at init and after every load that completed), the document holds exactly
\* one alternate link for each of en, es and x-default and no other.
C12_AlternatesAreNotDuplicated ==
    (variant = "rich" /\ phase = "ready" /\ ~location.throws) =>
        /\ Len(alternates) = Cardinality(Targets)
        /\ \A target \in Targets : Cardinality(AlternatesFor(target)) = 1

\* setupHrefLang has run at init and again after two loads completed.
C12_Witness ==
    /\ variant = "rich"
    /\ phase = "ready"
    /\ Len(lastSettled) = 2
    /\ lastSettled[1].success /\ lastSettled[2].success
    /\ Len(alternates) = 3

\* The page each start path served under the repository folder shows, as a
\* path below the site's root and outside any language folder, written out
\* by hand.
NeutralPage(path) ==
    CASE path = PathRepoPage -> <<"privacy.html">>
      [] path = PathRepoEs -> <<"privacy.html">>
      [] path = PathRepoUpper -> <<"index.html">>

\* The fully qualified URL of a page of the site, in a language folder and
\* outside any.
UrlUnder(lang, page) == Origin \o <<"/">> \o lang \o <<"/">> \o page
UrlNeutral(page) == Origin \o <<"/">> \o page

\* The href of the alternate carrying the given hreflang.
AlternateHref(target) ==
    alternates[CHOOSE i \in 1..Len(alternates) : alternates[i].hreflang = target].href

\* C13: on a page of the site, the alternates setupHrefLang has inserted for
\* en and es point at the URL of this page inside the en and the es folder,
\* and the x-default one at the URL of this page outside any language folder.
C13_AlternatesPointAtThePage ==
    (variant = "rich" /\ phase = "ready" /\ ~location.throws
        /\ location.pathname \in {PathRepoPage, PathRepoEs, PathRepoUpper}) =>
        LET page == NeutralPage(location.pathname)
        IN  /\ AlternateHref(EN) = UrlUnder(EN, page)
            /\ AlternateHref(ES) = UrlUnder(ES, page)
            /\ AlternateHref(<<"x-default">>) = UrlNeutral(page)

\* The language string the browser reports, and whether it starts with
\* 'es' in some letter case: the tags of ResolveTags that do, written out by
\* hand.
ReportedTag == Or(navigator.language, navigator.userLanguage)
SpanishTags == {ES, TagEsUpper, TagEsMx, TagEsMixed}

\* C14: constructed on a page without a language segment in its path and
\* without a stored preference, the controller's language is es when the
\* browser reports a tag starting with 'es' in any letter case, and en for
\* every other tag and for none.
C14_BrowserTagIsNormalized ==
    (phase # "DOMContentLoaded" /\ ~navigator.throws /\ localStorage.available
        /\ ~PathSignal.some /\ ~StoredSignal.some) =>
        /\ phase = "ready"
        /\ currentLang = IF ReportedTag.some /\ ReportedTag.v \in SpanishTags
                         THEN Str(ES) ELSE Str(EN)

\* The property names each key of LookupKeys walks through, written out by
\* hand.
KeyPath(key) ==
    CASE key = Key("nav", "home") -> << Prop("nav"), Prop("home") >>
      [] key = <<"nav">> -> << Prop("nav") >>
      [] key = Key("nav", "missing") -> << Prop("nav"), Prop("missing") >>
      [] key = Key("missing", "home") -> << Prop("missing"), Prop("home") >>
      [] key = <<"nav", ".", "home", ".", "extra">> ->
            << Prop("nav"), Prop("home"), Prop("extra") >>
      [] key = << >> -> << << >> >>
      [] key = <<"nav", ".">> -> << Prop("nav"), << >> >>
      [] key = <<"a", ".", "b", ".", "c">> -> << Prop("a"), Prop("b"), Prop("c") >>
      [] key = Key("a", "b") -> << Prop("a"), Prop("b") >>
      [] key = <<"nav", ".", "home", ".", "length">> ->
            << Prop("nav"), Prop("home"), Prop("length") >>
      [] key = <<"constructor">> -> << Prop("constructor") >>

\* The walk along path p ends on a leaf of the table, or inside it.
EndsOnLeaf(table, p) == p \in DOMAIN table
EndsInside(table, p) == \E q \in DOMAIN table : IsProperPrefix(p, q)

\* undefined, null or ''
Falsy(obj) == obj.kind = "undefined" \/ (obj.kind = "string" /\ obj.s = << >>)

\* This step is a call of t(key) on the constructed controller.
LookedUpNow ==
    phase = "ready" /\ <<lookupKey, lookupResult>>' # <<lookupKey, lookupResult>>

\* This step installs a table and applies it.
AppliedNow == lastSettled' # lastSettled /\ translations' # translations

\* The two property names of the key an element carries in data-i18n.
ElementPath(e) ==
    << Prop(PageElements[e].i18n.v[1]), Prop(PageElements[e].i18n.v[3]) >>

\* C15: a lookup returns the leaf its key leads to when every segment of the
\* key is there, and a falsy value when one is missing; and applying a table
\* leaves every element whose key leads to nothing in it as it was.
C15_LookupIsTotal ==
    [][ /\ LookedUpNow =>
              LET p == KeyPath(lookupKey'.v)
              IN  /\ EndsOnLeaf(translations, p) =>
                        lookupResult' = Leaf(translations[p])
                  /\ (~EndsOnLeaf(translations, p) /\ ~EndsInside(translations, p)) =>
                        Falsy(lookupResult')
        /\ AppliedNow =>
              \A e \in Elements :
                  (PageElements[e].i18n.some
                      /\ ~EndsOnLeaf(translations', ElementPath(e))
                      /\ ~EndsInside(translations', ElementPath(e))) =>
                        dom'[e] = dom[e] ]_vars

\* The tables the server can answer with, and the built-in one.
WholeTables == {EmptyTable, EnJson, EsJson, ErrorJson, FallbackTable}

\* This step is the constructor.
ConstructedNow == phase = "DOMContentLoaded" /\ phase' = "ready"

\* C16: the table is always the empty table, one fetched body or the built-in
\* table, never a mixture; the continuation of a failed load that retries
\* leaves it as it was, a failed en load leaves it as it was or installs the
\* built-in table; and the constructor and changeLanguage, which only start
\* a load, leave the initial resp. the present table in place.
C16_TableIsReplacedWhole ==
    /\ [](translations \in WholeTables)
    /\ [][ /\ (SettledNow /\ ~Latest'.success) =>
                 translations' = IF Latest'.lang = EN /\ variant # "simple"
                                 THEN FallbackTable ELSE translations
           /\ CalledNow => translations' = translations
           /\ ConstructedNow => translations' = EmptyTable ]_vars

\* A load has failed after another had succeeded, and the table of the
\* earlier one is still in place while the retry is in flight.
C16_Witness ==
    /\ phase = "ready"
    /\ Len(lastSettled) = 2
    /\ lastSettled[1].success
    /\ ~Latest.success
    /\ inflight # {}
    /\ translations = EsJson

C18_SelectorNamesTheTable ==
    (variant = "rich" /\ hasSelector /\ phase = "ready" /\ HasSettled
        /\ inflight = {} /\ currentLang \in Supported) =>
        selector = TableLang(translations)

\* The start paths that carry a language segment, with that segment taken
\* out and the rest joined as setupHrefLang joins it, written out by hand.
WithoutLangSegment(path) ==
    CASE path = PathRepoEs -> <<"audiograb-site", "/", "privacy.html">>
      [] path = PathRepoUpper -> <<"audiograb-site", "/", "index.html">>
      [] path = PathEn -> <<"index.html">>

\* C19: on every page where getLanguageFromUrl finds a language segment, in
\* whatever letter case, updateInternalLinks has rewritten no link,
\* setupHrefLang has built its URLs from the path without that segment, and
\* navigateToLanguage would replace that segment, leaving the number of
\* segments as it is.
C19_PathReadersAgree ==
    (variant = "rich" /\ phase = "ready" /\ ~location.throws
        /\ getLanguageFromUrl.some) =>
        /\ links = StaticLinks
        /\ AlternateHref(ES) = UrlUnder(ES, WithoutLangSegment(location.pathname))
        /\ \A lang \in {EN, ES} :
              Len(PathSegments(UrlPathname(NewPath(lang))))
                  = Len(PathSegments(location.pathname))

\* A segment that is a language code in some letter case.
IsLanguageSegment(seg) == ToLowerCase(seg) \in LangSegments

\* b is a with its one language segment replaced by lang.
Replaced(a, b, lang) ==
    /\ Len(b) = Len(a)
    /\ \E i \in 1..Len(a) :
          /\ IsLanguageSegment(a[i])
          /\ b = [a EXCEPT ![i] = lang]

\* b is a with lang put in right after 'audiograb-site', or in front when a
\* has no such segment.
Inserted(a, b, lang) ==
    /\ \A i \in 1..Len(a) : ~IsLanguageSegment(a[i])
    /\ IF \E i \in 1..Len(a) : a[i] = RepoSegment
       THEN \E i \in 1..Len(a) :
               /\ a[i] = RepoSegment
               /\ b = SubSeq(a, 1, i) \o <<lang>> \o SubSeq(a, i + 1, Len(a))
       ELSE b = <<lang>> \o a

\* This step is the load of the page a language switch to en or es has
\* navigated to.
NavigatedNow ==
    /\ pageLoads' = pageLoads + 1
    /\ lastCall.setItem # "none"
    /\ lastCall.lang \in LangSegments

\* C20: the page that changeLanguage(L) navigates to, L being en or es and
\* not the current language, is one on which the constructor resolves L, and
\* its path is the path left with its language segment replaced by L or,
\* when it had none, with L put in after 'audiograb-site' or in front.
C20_NavigationRoundTrips ==
    [][ NavigatedNow =>
            /\ ~ConstructorThrows'
            /\ \E urlLang \in {UrlSignal'} :
               \E savedLang \in {getSavedLanguage'} :
               \E browserLang \in {getBrowserLanguage'} :
                   ResolveLang(urlLang, savedLang.val, browserLang.val)
                       = Str(lastCall.lang)
            /\ \E from \in {PathSegments(location.pathname)} :
               \E to \in {PathSegments(location'.pathname)} :
                   Replaced(from, to, lastCall.lang)
                       \/ Inserted(from, to, lastCall.lang) ]_vars

\* The language folders that head an href, one after another.
RECURSIVE LanguagePrefixes(_)
LanguagePrefixes(href) ==
    IF \E lang \in {EN, ES, FR} : StartsWith(href, lang \o <<"/">>)
    THEN 1 + LanguagePrefixes(SubSeq(href, Len(EN) + 2, Len(href)))
    ELSE 0

\* C21: however often updateInternalLinks runs, and whatever the current
\* language is each time, the href of every link starts with at most one
\* language folder.
C21_PrefixesDoNotStack ==
    \A a \in DOMAIN links : LanguagePrefixes(links[a]) <= 1

\* updateInternalLinks has put es/ in front of a link at init and has run
\* again, after a load completed, with en as the current language.
C21_Witness ==
    /\ variant = "rich"
    /\ phase = "ready"
    /\ calls >= 1
    /\ HasSettled
    /\ Latest.success
    /\ currentLang = Str(EN)
    /\ links.aIndex = Prefixed(ES, <<"index.html">>)

====
